---- MODULE Spec2Model ----
(***************************************************************************)
(* Daily sales entry form (src/app.py): reference reads from the document  *)
(* database, option building, form validation, record mapping and the      *)
(* create call, modelled as one request handled step by step.              *)
(*                                                                         *)
(* Text is a sequence of one-character strings, so that strip(), replace() *)
(* and the parsers act on characters as the Python code does.  The         *)
(* character U+2014 (em dash) is written "U+2014".  An Optional[str] is a  *)
(* sequence of length 0 (None) or 1 (the string).                          *)
(***************************************************************************)
EXTENDS Integers, Sequences, FiniteSets, TLC

(***************************************************************************)
(* Characters and Python string primitives                                 *)
(***************************************************************************)
Digits == {"0", "1", "2", "3", "4", "5", "6", "7", "8", "9"}

\* Decimal digits beyond ASCII, which float() and the \d of strptime accept
\* as well: the Arabic-Indic and the fullwidth digits stand for them.
ArabicIndic == <<"U+0660", "U+0661", "U+0662", "U+0663", "U+0664", "U+0665", "U+0666",
                 "U+0667", "U+0668", "U+0669">>

Fullwidth == <<"U+FF10", "U+FF11", "U+FF12", "U+FF13", "U+FF14", "U+FF15", "U+FF16",
               "U+FF17", "U+FF18", "U+FF19">>

Decimals == Digits \cup {ArabicIndic[i] : i \in 1..10} \cup {Fullwidth[i] : i \in 1..10}

DigitVal(c) ==
  CASE c = "0" -> 0 [] c = "1" -> 1 [] c = "2" -> 2 [] c = "3" -> 3
    [] c = "4" -> 4 [] c = "5" -> 5 [] c = "6" -> 6 [] c = "7" -> 7
    [] c = "8" -> 8 [] c = "9" -> 9
    [] OTHER -> (CHOOSE i \in 1..10 : ArabicIndic[i] = c \/ Fullwidth[i] = c) - 1

DigitChar(d) ==
  CASE d = 0 -> "0" [] d = 1 -> "1" [] d = 2 -> "2" [] d = 3 -> "3"
    [] d = 4 -> "4" [] d = 5 -> "5" [] d = 6 -> "6" [] d = 7 -> "7"
    [] d = 8 -> "8" [] d = 9 -> "9"

\* Unicode code point of a character of the model's alphabet (str ordering).
Ord(c) ==
  CASE c = " " -> 32 [] c = "+" -> 43 [] c = "," -> 44 [] c = "-" -> 45
    [] c = "." -> 46 [] c \in Digits -> 48 + DigitVal(c)
    [] c = "A" -> 65 [] c = "B" -> 66 [] c = "C" -> 67 [] c = "D" -> 68
    [] c = "K" -> 75 [] c = "M" -> 77 [] c = "N" -> 78 [] c = "S" -> 83
    [] c = "Y" -> 89 [] c = "a" -> 97 [] c = "b" -> 98 [] c = "c" -> 99
    [] c = "e" -> 101 [] c = "f" -> 102 [] c = "h" -> 104 [] c = "l" -> 108
    [] c = "n" -> 110 [] c = "o" -> 111 [] c = "p" -> 112 [] c = "r" -> 114
    [] c = "s" -> 115 [] c = "t" -> 116 [] c = "u" -> 117 [] c = "x" -> 120
    [] c = "y" -> 121 [] c = "U+2014" -> 8212
    [] c = "\t" -> 9 [] c = "\n" -> 10 [] c = "U+000B" -> 11 [] c = "\f" -> 12
    [] c = "\r" -> 13 [] c = "U+001C" -> 28 [] c = "U+001D" -> 29
    [] c = "U+001E" -> 30 [] c = "U+001F" -> 31 [] c = "E" -> 69 [] c = "F" -> 70
    [] c = "I" -> 73 [] c = "T" -> 84 [] c = "_" -> 95 [] c = "i" -> 105
    [] c = "U+0085" -> 133 [] c = "U+00A0" -> 160
    [] c = "U+1680" -> 5760 [] c = "U+2000" -> 8192 [] c = "U+2001" -> 8193
    [] c = "U+2002" -> 8194 [] c = "U+2003" -> 8195 [] c = "U+2004" -> 8196
    [] c = "U+2005" -> 8197 [] c = "U+2006" -> 8198 [] c = "U+2007" -> 8199
    [] c = "U+2008" -> 8200 [] c = "U+2009" -> 8201 [] c = "U+200A" -> 8202
    [] c = "U+2028" -> 8232 [] c = "U+2029" -> 8233 [] c = "U+202F" -> 8239
    [] c = "U+205F" -> 8287 [] c = "U+3000" -> 12288
    [] c \in {ArabicIndic[i] : i \in 1..10} -> 1632 + DigitVal(c)
    [] c \in {Fullwidth[i] : i \in 1..10} -> 65296 + DigitVal(c)

\* The characters str.isspace() holds of; a character beyond U+007F is
\* written "U+" and its code point, as are the controls TLA+ has no escape for.
Whitespace ==
  {" ", "\t", "\n", "\r", "\f", "U+000B", "U+001C", "U+001D", "U+001E", "U+001F",
   "U+0085", "U+00A0", "U+1680", "U+2000", "U+2001", "U+2002", "U+2003", "U+2004",
   "U+2005", "U+2006", "U+2007", "U+2008", "U+2009", "U+200A", "U+2028", "U+2029",
   "U+202F", "U+205F", "U+3000"}

\* The whitespace float() ignores around a literal: the non-ASCII spaces and
\* the C isspace() characters, but not the separators U+001C..U+001F.
FloatSpace == Whitespace \ {"U+001C", "U+001D", "U+001E", "U+001F"}

\* s without its longest prefix of characters of W
DropLeading(s, W) ==
  IF \A i \in 1..Len(s) : s[i] \in W THEN <<>>
  ELSE SubSeq(s, CHOOSE i \in 1..Len(s) :
                   s[i] \notin W /\ \A j \in 1..(i - 1) : s[j] \in W,
              Len(s))

\* s without its longest suffix of characters of W
DropTrailing(s, W) ==
  IF \A i \in 1..Len(s) : s[i] \in W THEN <<>>
  ELSE SubSeq(s, 1, CHOOSE i \in 1..Len(s) :
                      s[i] \notin W /\ \A j \in (i + 1)..Len(s) : s[j] \in W)

LStrip(s) == DropLeading(s, Whitespace)

RStrip(s) == DropTrailing(s, Whitespace)

\* str.strip()
Strip(s) == RStrip(LStrip(s))

\* s.replace(",", "")
RemoveCommas(s) == SelectSeq(s, LAMBDA c : c # ",")

\* \d+
AllDigits(s) == \A i \in 1..Len(s) : s[i] \in Decimals

RECURSIVE DigitsToNat(_)
DigitsToNat(s) == IF s = <<>> THEN 0
                  ELSE 10 * DigitsToNat(SubSeq(s, 1, Len(s) - 1)) + DigitVal(s[Len(s)])

RECURSIVE Pow10(_)
Pow10(k) == IF k = 0 THEN 1 ELSE 10 * Pow10(k - 1)

RECURSIVE NatToStr(_)
NatToStr(n) == IF n < 10 THEN <<DigitChar(n)>>
               ELSE Append(NatToStr(n \div 10), DigitChar(n % 10))

\* str(v) of a JSON integer
IntToStr(n) == IF n < 0 THEN <<"-">> \o NatToStr(0 - n) ELSE NatToStr(n)

\* str < str : lexicographic by code point
RECURSIVE StrLess(_, _)
StrLess(a, b) ==
  IF b = <<>> THEN FALSE
  ELSE IF a = <<>> THEN TRUE
  ELSE IF Ord(Head(a)) # Ord(Head(b)) THEN Ord(Head(a)) < Ord(Head(b))
  ELSE StrLess(Tail(a), Tail(b))

(***************************************************************************)
(* Parsers.  A parse result is a record with ok = FALSE when the Python    *)
(* call raises.  A float is kind "finite" with value num * 10^(-scale),    *)
(* num not divisible by 10 (so equal numbers have equal representations),  *)
(* or kind "inf" (num = 1 or -1) or kind "nan".  The record names the      *)
(* double nearest to the decimal value; below the normal range of a double *)
(* (2.2250738585072014e-308) two records may name the same double.         *)
(* Integers are those of TLC, so a literal whose digits, leading and       *)
(* trailing zeros dropped, make a number of 2^31 or more, and an int() of  *)
(* 2^31 or more, are outside the model.                                    *)
(***************************************************************************)
NoFloat == [ok |-> FALSE, kind |-> "none", num |-> 0, scale |-> 0]

Inf(neg) == [ok |-> TRUE, kind |-> "inf", num |-> IF neg THEN -1 ELSE 1, scale |-> 0]

NaN == [ok |-> TRUE, kind |-> "nan", num |-> 0, scale |-> 0]

Zero == [ok |-> TRUE, kind |-> "finite", num |-> 0, scale |-> 0]

RECURSIVE NumDigits(_)
NumDigits(n) == IF n < 10 THEN 1 ELSE 1 + NumDigits(n \div 10)

\* The first nine significant digits of n > 0, as a number.
Lead9(n) == IF NumDigits(n) > 9 THEN n \div Pow10(NumDigits(n) - 9)
            ELSE n * Pow10(9 - NumDigits(n))

\* Rounding of the decimal mag * 10^(-scale), mag > 0 with no trailing zero,
\* to a double.  From 2^1024 - 2^970 = 1.7976931348623158...e308 on it is
\* inf: of ten digits from 1.797693135e308, of nine or fewer from
\* 1.79769314e308.  Up to 2^-1075 = 2.4703282292...e-324 it is zero, which
\* every ten-digit mag at that exponent is.
Round(neg, mag, scale) ==
  LET e10 == NumDigits(mag) - 1 - scale IN
  IF e10 > 308
     \/ (e10 = 308 /\ (IF NumDigits(mag) > 9 THEN mag >= 1797693135
                        ELSE Lead9(mag) > 179769313))
    THEN Inf(neg)
  ELSE IF e10 < -324 \/ (e10 = -324 /\ Lead9(mag) <= 247032822) THEN Zero
  ELSE [ok |-> TRUE, kind |-> "finite", num |-> IF neg THEN 0 - mag ELSE mag,
        scale |-> scale]

RECURSIVE Normalize(_, _, _)
Normalize(neg, mag, scale) ==
  IF mag = 0 THEN Zero
  ELSE IF mag % 10 = 0 THEN Normalize(neg, mag \div 10, scale - 1)
  ELSE Round(neg, mag, scale)

Positions(s, C) == {i \in 1..Len(s) : s[i] \in C}

DotPositions(s) == Positions(s, {"."})

\* digit (["_"] digit)*
IsDigitPart(s) ==
  /\ s # <<>>
  /\ \A i \in 1..Len(s) : s[i] \in Decimals \cup {"_"}
  /\ s[1] # "_" /\ s[Len(s)] # "_"
  /\ \A i \in 1..(Len(s) - 1) : ~(s[i] = "_" /\ s[i + 1] = "_")

DigitPartDigits(s) == SelectSeq(s, LAMBDA c : c # "_")

\* The characters of value zero among the decimal digits.
ZeroDigits == {"0", ArabicIndic[1], Fullwidth[1]}

DropZeros(s) == DropLeading(s, ZeroDigits)

DropTrailingZeros(s) == DropTrailing(s, ZeroDigits)

\* [digitpart] "." digitpart | digitpart ["."]
IsPointFloat(m) ==
  IF DotPositions(m) = {} THEN IsDigitPart(m)
  ELSE /\ Cardinality(DotPositions(m)) = 1
       /\ LET i  == CHOOSE j \in DotPositions(m) : TRUE
              ip == SubSeq(m, 1, i - 1)
              fp == SubSeq(m, i + 1, Len(m))
          IN  /\ ip = <<>> \/ IsDigitPart(ip)
              /\ fp = <<>> \/ IsDigitPart(fp)
              /\ ip # <<>> \/ fp # <<>>

\* ("e" | "E") [sign] digitpart, given without the letter
IsExponent(x) ==
  /\ x # <<>>
  /\ IsDigitPart(IF Head(x) \in {"+", "-"} THEN Tail(x) ELSE x)

\* Unsigned decimal literal with optional exponent, of sign neg.  The value
\* is sig * 10^(tz - Len(fp) + exponent): the position of the point and the
\* zeros at either end of the digits count with the exponent before the
\* rounding.  An exponent of more than nine digits, leading zeros apart,
\* counts as 1100000000, which no literal the model can hold offsets.
UnsignedFloat(neg, r) ==
  LET es == Positions(r, {"e", "E"}) IN
  IF Cardinality(es) > 1 THEN NoFloat
  ELSE LET k  == IF es = {} THEN Len(r) + 1 ELSE CHOOSE j \in es : TRUE
           m  == SubSeq(r, 1, k - 1)
           x  == SubSeq(r, k + 1, Len(r))
       IN
       IF ~IsPointFloat(m) \/ (es # {} /\ ~IsExponent(x)) THEN NoFloat
       ELSE LET i    == IF DotPositions(m) = {} THEN Len(m) + 1
                        ELSE CHOOSE j \in DotPositions(m) : TRUE
                ip   == DigitPartDigits(SubSeq(m, 1, i - 1))
                fp   == DigitPartDigits(SubSeq(m, i + 1, Len(m)))
                sig  == DropTrailingZeros(DropZeros(ip \o fp))
                tz   == Len(DropZeros(ip \o fp)) - Len(sig)
                mag  == DigitsToNat(sig)
                xneg == x # <<>> /\ Head(x) = "-"
                xd   == IF x = <<>> THEN <<>>
                        ELSE DropZeros(DigitPartDigits(
                               IF Head(x) \in {"+", "-"} THEN Tail(x) ELSE x))
                xabs == IF Len(xd) > 9 THEN 1100000000 ELSE DigitsToNat(xd)
            IN  IF sig = <<>> THEN Zero
                ELSE Normalize(neg, mag,
                       Len(fp) - tz - (IF xneg THEN 0 - xabs ELSE xabs))

Lower(c) ==
  CASE c = "I" -> "i" [] c = "N" -> "n" [] c = "F" -> "f" [] c = "A" -> "a"
    [] c = "T" -> "t" [] c = "Y" -> "y" [] OTHER -> c

LowerStr(s) == [i \in 1..Len(s) |-> Lower(s[i])]

LStripFloat(s) == DropLeading(s, FloatSpace)

RStripFloat(s) == DropTrailing(s, FloatSpace)

\* float(s): surrounding whitespace ignored, optional sign, then "inf",
\* "infinity" or "nan" in any case, or a decimal literal.
PyFloat(s) ==
  LET t   == RStripFloat(LStripFloat(s))
      neg == t # <<>> /\ Head(t) = "-"
      r   == IF t # <<>> /\ Head(t) \in {"+", "-"} THEN Tail(t) ELSE t
  IN  IF LowerStr(r) \in {<<"i", "n", "f">>, <<"i", "n", "f", "i", "n", "i", "t", "y">>}
        THEN Inf(neg)
      ELSE IF LowerStr(r) = <<"n", "a", "n">> THEN NaN
      ELSE UnsignedFloat(neg, r)

_to_float(s) == PyFloat(RemoveCommas(Strip(s)))

\* int(x) of a finite x truncates toward zero
Trunc(f) ==
  LET mag == IF f.num >= 0 THEN f.num ELSE 0 - f.num
      t   == IF f.scale >= 0
             THEN (IF f.scale > 9 THEN 0 ELSE mag \div Pow10(f.scale))
             ELSE mag * Pow10(0 - f.scale)
  IN  IF f.num >= 0 THEN t ELSE 0 - t

\* int(float(s)): int() raises OverflowError on inf and ValueError on nan
_to_int(s) ==
  LET f == PyFloat(RemoveCommas(Strip(s)))
  IN  IF f.ok /\ f.kind = "finite" THEN [ok |-> TRUE, val |-> Trunc(f)]
      ELSE [ok |-> FALSE, val |-> 0]

DashPositions(s) == {i \in 1..Len(s) : s[i] = "-"}

\* %m : 1[0-2] | 0[1-9] | [1-9]
MonthMatch(m) ==
  \/ Len(m) = 2 /\ m[1] = "1" /\ m[2] \in {"0", "1", "2"}
  \/ Len(m) = 2 /\ m[1] = "0" /\ m[2] \in Digits \ {"0"}
  \/ Len(m) = 1 /\ m[1] \in Digits \ {"0"}

\* %d : 3[01] | [12]\d | 0[1-9] | [1-9] | " "[1-9]
DayMatch(d) ==
  \/ Len(d) = 2 /\ d[1] = "3" /\ d[2] \in {"0", "1"}
  \/ Len(d) = 2 /\ d[1] \in {"1", "2"} /\ d[2] \in Decimals
  \/ Len(d) = 2 /\ d[1] \in {"0", " "} /\ d[2] \in Digits \ {"0"}
  \/ Len(d) = 1 /\ d[1] \in Digits \ {"0"}

IsLeap(y) == (y % 4 = 0 /\ y % 100 # 0) \/ y % 400 = 0

DaysInMonth(y, m) ==
  IF m = 2 THEN (IF IsLeap(y) THEN 29 ELSE 28)
  ELSE IF m \in {4, 6, 9, 11} THEN 30 ELSE 31

\* datetime.strptime(t, "%Y-%m-%d") does not raise
StrptimeOk(t) ==
  /\ Cardinality(DashPositions(t)) = 2
  /\ 5 \in DashPositions(t)
  /\ LET j  == CHOOSE k \in DashPositions(t) : k # 5
         yy == SubSeq(t, 1, 4)
         mm == SubSeq(t, 6, j - 1)
         dd == SubSeq(t, j + 1, Len(t))
     IN  /\ j > 5
         /\ AllDigits(yy)
         /\ MonthMatch(mm)
         /\ DayMatch(dd)
         /\ DigitsToNat(yy) >= 1
         /\ DigitsToNat(Strip(dd)) <= DaysInMonth(DigitsToNat(yy), DigitsToNat(mm))

_parse_date_yyyy_mm_dd(s) ==
  LET t == Strip(s)
  IN  IF StrptimeOk(t) THEN [ok |-> TRUE, str |-> t] ELSE [ok |-> FALSE, str |-> <<>>]


(***************************************************************************)
(* Typed property decoding and the option builder                          *)
(***************************************************************************)
None == <<>>
Some(v) == <<v>>

RECURSIVE JoinText(_)
\* "".join(x.get("plain_text", "") for x in arr)
JoinText(arr) == IF arr = <<>> THEN <<>> ELSE Head(arr) \o JoinText(Tail(arr))

\* e or None, for a str e
OrNone(s) == IF s = <<>> THEN None ELSE Some(s)

\* _get_prop_value: props maps property names to typed properties.
_get_prop_value(props, prop_name) ==
  IF prop_name \notin DOMAIN props THEN None
  ELSE LET p == props[prop_name] IN
    CASE p.type = "title"     -> OrNone(Strip(JoinText(p.title)))
      [] p.type = "rich_text" -> OrNone(Strip(JoinText(p.rich_text)))
      [] p.type = "number"    -> IF p.number = None THEN None
                                 ELSE Some(IntToStr(p.number[1]))
      [] p.type = "select"    -> p.select
      [] p.type = "status"    -> p.status
      [] p.type = "formula"   ->
           LET f == p.formula IN
           CASE f.type = "string"  -> f.string
             [] f.type = "number"  -> IF f.number = None THEN None
                                      ELSE Some(IntToStr(f.number[1]))
             [] f.type = "boolean" -> IF f.boolean = None THEN None
                                      ELSE IF f.boolean[1]
                                        THEN Some(<<"t", "r", "u", "e">>)
                                        ELSE Some(<<"f", "a", "l", "s", "e">>)
             [] f.type = "date"    -> f.date
             [] OTHER              -> None
      [] OTHER -> None

\* "not v" for an Optional[str]
Falsy(v) == v = None \/ v[1] = <<>>

LabelSep == <<" ", "U+2014", " ">>

\* The (value, label) pair one row contributes, or None when it is skipped.
RowOption(props, id_property_name, label_property_name) ==
  LET v0 == _get_prop_value(props, id_property_name) IN
  IF Falsy(v0) THEN None
  ELSE LET v  == Strip(v0[1])
           nm == IF label_property_name = None THEN None
                 ELSE _get_prop_value(props, label_property_name[1])
       IN  Some(<<v, IF Falsy(nm) THEN v ELSE v \o LabelSep \o Strip(nm[1])>>)

RECURSIVE CollectOptions(_, _, _)
CollectOptions(pages, idp, lbp) ==
  IF pages = <<>> THEN <<>>
  ELSE RowOption(Head(pages).properties, idp, lbp) \o CollectOptions(Tail(pages), idp, lbp)

\* Insert x after every element whose key is <= x's key (a stable sort step).
RECURSIVE InsertByValue(_, _)
InsertByValue(sorted, x) ==
  IF sorted = <<>> THEN <<x>>
  ELSE IF StrLess(x[1], Head(sorted)[1]) THEN <<x>> \o sorted
  ELSE <<Head(sorted)>> \o InsertByValue(Tail(sorted), x)

RECURSIVE SortByValue(_)
\* opts.sort(key=lambda x: x[0])
SortByValue(opts) ==
  IF opts = <<>> THEN <<>>
  ELSE InsertByValue(SortByValue(SubSeq(opts, 1, Len(opts) - 1)), opts[Len(opts)])

\* _options_from_db, given the rows _query_database_all returned
OptionsFromRows(pages, idp, lbp) == SortByValue(CollectOptions(pages, idp, lbp))

(***************************************************************************)
(* Form validation and record mapping                                      *)
(***************************************************************************)
required_fields == <<"date", "salesman_id", "distributor_id", "region", "outlet_id",
                     "sku_id", "quantity", "value", "selling_mode", "visit_yn">>

\* Variant: stops at the first missing field.
MissingFields_FirstOnly(fv) ==
  SubSeq(SelectSeq(required_fields, LAMBDA f : Strip(fv[f]) = <<>>), 1, 1)

\* [f for f in required_fields if not str(form_values.get(f, "")).strip()]
MissingFields(fv) == SelectSeq(required_fields, LAMBDA f : Strip(fv[f]) = <<>>)

RECURSIVE JoinComma(_)
\* ", ".join(names), as a sequence of tokens
JoinComma(names) ==
  IF names = <<>> THEN <<>>
  ELSE IF Len(names) = 1 THEN names
  ELSE <<Head(names), ", ">> \o JoinComma(Tail(names))

MissingPrefix == "Missing fields: "
DateError     == <<"Date must be in YYYY-MM-DD format.">>
QuantityError == <<"Quantity must be a number.">>
ValueError    == <<"Value must be a number.">>

\* errors after 'validate required'
RequiredErrors(fv) ==
  IF MissingFields(fv) # <<>> THEN << <<MissingPrefix>> \o JoinComma(MissingFields(fv)) >>
  ELSE <<>>

\* Variant: the type checks stop at the first failure.
TypeErrors_FailFast(fv) ==
  IF ~_parse_date_yyyy_mm_dd(fv["date"]).ok THEN <<DateError>>
  ELSE IF ~_to_int(fv["quantity"]).ok THEN <<QuantityError>>
  ELSE IF ~_to_float(fv["value"]).ok THEN <<ValueError>>
  ELSE <<>>

\* the three try/except blocks, in order
TypeErrors(fv) ==
     (IF _parse_date_yyyy_mm_dd(fv["date"]).ok THEN <<>> ELSE <<DateError>>)
  \o (IF _to_int(fv["quantity"]).ok THEN <<>> ELSE <<QuantityError>>)
  \o (IF _to_float(fv["value"]).ok THEN <<>> ELSE <<ValueError>>)

\* Variant: only the required-field check gates the create call.
FormErrors_RequiredOnly(fv) == RequiredErrors(fv)

\* the errors list when 'if ok, push to Notion' is reached
FormErrors(fv) ==
  IF RequiredErrors(fv) # <<>> THEN RequiredErrors(fv) ELSE TypeErrors(fv)

RichText(s) == [rich_text |-> <<[text |-> [content |-> s]]>>]

\* the Visit property
VisitSelect(fv) == [select |-> [name |-> Strip(fv["visit_yn"])]]

\* The properties dict literal, given the locals date_iso, qty and val.
MapRecord(fv, date_iso, qty, val) ==
  [ Name           |-> [title |-> <<[text |-> [content |->
                         <<date_iso, " | Outlet ", fv["outlet_id"], " | SKU ", fv["sku_id"]>>]]>>],
    Date           |-> [date |-> [start |-> date_iso]],
    Salesman_ID    |-> RichText(Strip(fv["salesman_id"])),
    Distributor_ID |-> RichText(Strip(fv["distributor_id"])),
    Region         |-> RichText(Strip(fv["region"])),
    Outlet_ID      |-> RichText(Strip(fv["outlet_id"])),
    Outlet_Name    |-> RichText(Strip(fv["outlet_name"])),
    SKU_ID         |-> RichText(Strip(fv["sku_id"])),
    Quantity       |-> [number |-> qty],
    Value          |-> [number |-> val],
    Selling_Mode   |-> [select |-> [name |-> Strip(fv["selling_mode"])]],
    Visit          |-> VisitSelect(fv) ]

\* the float a parse produced, as a number
FloatValue(f) == [kind |-> f.kind, num |-> f.num, scale |-> f.scale]

\* 'if ok, push to Notion': the locals are parsed again, then mapped
notion_props(fv) ==
  MapRecord(fv, _parse_date_yyyy_mm_dd(fv["date"]).str, _to_int(fv["quantity"]).val,
            FloatValue(_to_float(fv["value"])))

(***************************************************************************)
(* The request and the external service                                    *)
(***************************************************************************)
VARIABLES
  cfg,            \* DB_DAILY_SALES and the four DB_MASTER_* identifiers
  tables,         \* the service: identifier -> the answer it gives for each page
  method,         \* request.method
  form,           \* request.form, with "" for a field that was not sent
  pc,             \* "options", "done" (a template was rendered), "raised"
  ref,            \* which _options_from_db call of the handler is running, 1..4
  results,        \* _query_database_all: rows collected so far
  start_cursor,   \* _query_database_all: Optional cursor of the next query
  pages,          \* what _query_database_all returned, per reference
  opts,           \* salesman_opts, distributor_opts, sku_opts, outlet_opts
  calls,          \* every requests.post issued, in order
  errors,         \* the handler's errors list
  form_values,    \* Optional: the handler's form_values dict ({} is None)
  view,           \* the template rendered: "none", "form", "success"
  raised          \* Optional: the exception that left the handler

vars == <<cfg, tables, method, form, pc, ref, results, start_cursor, pages, opts,
          calls, errors, form_values, view, raised>>

\* The handler's four _options_from_db calls, in order (lines 200-207).
Refs == << [name |-> "salesman",    idp |-> "Salesman_ID",    lbp |-> "Salesman_Name"],
           [name |-> "distributor", idp |-> "Distributor_ID", lbp |-> "Distributor_Name"],
           [name |-> "sku",         idp |-> "SKU_ID",         lbp |-> "SKU Name"],
           [name |-> "outlet",      idp |-> "Outlet ID",      lbp |-> "Outlet_Name"] >>

RefNames == {Refs[i].name : i \in 1..Len(Refs)}

\* The identifier the running _options_from_db call was given.
database_id == cfg[Refs[ref].name]

\* r.status_code >= 400 raises
IsError(status) == status >= 400

Statuses == {200, 400, 500}

\* r.text of a response, opaque
BodyOf(status) == <<"body", status>>

NotionError(status) == [kind |-> "Notion error", status |-> status, text |-> BodyOf(status)]

ConfigError == [kind |-> "DB_DAILY_SALES missing/blank in .env", status |-> 0, text |-> <<>>]

\* requests.post(json=payload): nan and the infinities have no JSON form.  A
\* requests library that encodes with allow_nan=False raises before anything
\* is sent; one that does not sends the payload.
Serializable(props) == props.Value.number.kind = "finite"

JsonError == [kind |-> "InvalidJSONError", status |-> 0, text |-> <<>>]

\* The cursor by which the service names its page k: an opaque non-empty
\* string.
CursorOf(k) == <<"p", DigitChar(k)>>

\* The page a query asks for: the first when the payload has no start_cursor.
PageIndex(cursor) == IF cursor = None THEN 1 ELSE DigitVal(cursor[1][2])

\* data = r.json(): the answer the service holds for that page, a record of
\* results, has_more and next_cursor (None for null).  What it holds is the
\* service's affair: has_more may come with a null or an empty next_cursor.
QueryResponse(db, cursor) == tables[db][PageIndex(cursor)]

\* 'if start_cursor:' holds of neither None nor the empty string
Truthy(cursor) == cursor # None /\ cursor[1] # <<>>

\* payload["start_cursor"], None when the key is not set
PayloadCursor(cursor) == IF Truthy(cursor) THEN cursor ELSE None

\* Iterations of the while loop the model follows for one read.
MaxQueries == 5

\* Queries the running read has issued.
QueriesSent == Cardinality({i \in 1..Len(calls) : calls[i].ref = Refs[ref].name})

\* A requests.post and the status it was answered with.  A query carries
\* page_size, and start_cursor only when truthy; a create carries properties.
QueryCall(db, cursor, status) ==
  [path |-> "query", db |-> db, ref |-> Refs[ref].name, page_size |-> 100,
   start_cursor |-> cursor, properties |-> None, status |-> status]

CreateCall(props, status) ==
  [path |-> "pages", db |-> cfg.sales, ref |-> "sales", page_size |-> 0,
   start_cursor |-> None, properties |-> Some(props), status |-> status]

\* cursor carried into the next iteration: data.get("next_cursor") when has_more
NextCursor(data) == data.next_cursor

\* Variant: each page replaces the rows collected so far.
Extend_Overwrite(rows, data) == data.results

\* results.extend(data.get("results", []))
Extend(rows, data) == rows \o data.results

\* Leave the running _options_from_db call with the rows rows.
FinishOptions(rows) ==
  /\ pages' = [pages EXCEPT ![Refs[ref].name] = rows]
  /\ opts' = [opts EXCEPT ![Refs[ref].name] =
                OptionsFromRows(rows, Refs[ref].idp, Some(Refs[ref].lbp))]
  /\ ref' = ref + 1
  /\ results' = <<>>
  /\ start_cursor' = None

\* Variant: a blank identifier is queried like any other.
BlankIdentifier_Never(id) == FALSE

\* 'if not database_id: return []' (and 'if DB_MASTER_OUTLET:' for outlets)
BlankIdentifier(id) == id = ""

\* _options_from_db with a blank identifier: no query, no options.
OptionsBlank ==
  /\ pc = "options" /\ ref <= Len(Refs)
  /\ BlankIdentifier(database_id)
  /\ FinishOptions(<<>>)
  /\ UNCHANGED <<cfg, tables, method, form, pc, calls, errors, form_values, view, raised>>

\* One iteration of the while loop whose query succeeds; the service answers
\* with success only for a database it holds.
QueryPageOk ==
  /\ pc = "options" /\ ref <= Len(Refs)
  /\ ~BlankIdentifier(database_id)
  /\ database_id \in DOMAIN tables
  /\ QueriesSent < MaxQueries
  /\ \E status \in Statuses :
       /\ ~IsError(status)
       /\ calls' = Append(calls, QueryCall(database_id, PayloadCursor(start_cursor), status))
       /\ LET data == QueryResponse(database_id, PayloadCursor(start_cursor)) IN
          IF data.has_more
          THEN /\ results' = Extend(results, data)
               /\ start_cursor' = NextCursor(data)
               /\ UNCHANGED <<pages, opts, ref>>
          ELSE FinishOptions(Extend(results, data))
  /\ UNCHANGED <<cfg, tables, method, form, pc, errors, form_values, view, raised>>

\* Variant: a failed query is swallowed and the read returns what it has.
QueryPageFail_Swallowed ==
  /\ pc = "options" /\ ref <= Len(Refs)
  /\ database_id # ""
  /\ \E status \in Statuses :
       /\ IsError(status)
       /\ calls' = Append(calls, QueryCall(database_id, PayloadCursor(start_cursor), status))
  /\ FinishOptions(results)
  /\ UNCHANGED <<cfg, tables, method, form, pc, errors, form_values, view, raised>>

\* One iteration whose query answers with an error status: _notion_post raises
\* and nothing catches it.
QueryPageFail ==
  /\ pc = "options" /\ ref <= Len(Refs)
  /\ ~BlankIdentifier(database_id)
  /\ \E status \in Statuses :
       /\ IsError(status)
       /\ calls' = Append(calls, QueryCall(database_id, PayloadCursor(start_cursor), status))
       /\ raised' = Some(NotionError(status))
  /\ pc' = "raised"
  /\ UNCHANGED <<cfg, tables, method, form, ref, results, start_cursor, pages, opts,
                 errors, form_values, view>>

\* Any method but POST (GET, and the HEAD the route answers with it): the
\* form is rendered with no errors and no values.
RenderGet ==
  /\ pc = "options" /\ ref > Len(Refs)
  /\ method # "POST"
  /\ view' = "form"
  /\ pc' = "done"
  /\ UNCHANGED <<cfg, tables, method, form, ref, results, start_cursor, pages, opts,
                 calls, errors, form_values, raised>>

\* POST with validation errors: the form is rendered again.
SubmitInvalid ==
  /\ pc = "options" /\ ref > Len(Refs)
  /\ method = "POST"
  /\ FormErrors(form) # <<>>
  /\ form_values' = Some(form)
  /\ errors' = FormErrors(form)
  /\ view' = "form"
  /\ pc' = "done"
  /\ UNCHANGED <<cfg, tables, method, form, ref, results, start_cursor, pages, opts,
                 calls, raised>>

\* POST, valid, DB_DAILY_SALES blank: _notion_create_daily_sales_row raises.
SubmitNoTable ==
  /\ pc = "options" /\ ref > Len(Refs)
  /\ method = "POST"
  /\ FormErrors(form) = <<>>
  /\ cfg.sales = ""
  /\ form_values' = Some(form)
  /\ raised' = Some(ConfigError)
  /\ pc' = "raised"
  /\ UNCHANGED <<cfg, tables, method, form, ref, results, start_cursor, pages, opts,
                 calls, errors, view>>

\* POST, valid: the create call succeeds and success.html is rendered.
CreateOk ==
  /\ pc = "options" /\ ref > Len(Refs)
  /\ method = "POST"
  /\ FormErrors(form) = <<>>
  /\ cfg.sales # ""
  /\ \E status \in Statuses :
       /\ ~IsError(status)
       /\ calls' = Append(calls, CreateCall(notion_props(form), status))
  /\ form_values' = Some(form)
  /\ view' = "success"
  /\ pc' = "done"
  /\ UNCHANGED <<cfg, tables, method, form, ref, results, start_cursor, pages, opts,
                 errors, raised>>

\* What the handler does with the RuntimeError of a failed create call:
\* line 282 stands in no try block, so the error leaves the handler.
CreateFailure(status) ==
  [pc |-> "raised", view |-> "none", errors |-> <<>>, raised |-> Some(NotionError(status))]

\* POST, valid: the create call answers with an error status.
CreateFail ==
  /\ pc = "options" /\ ref > Len(Refs)
  /\ method = "POST"
  /\ FormErrors(form) = <<>>
  /\ cfg.sales # ""
  /\ \E status \in Statuses :
       /\ IsError(status)
       /\ calls' = Append(calls, CreateCall(notion_props(form), status))
       /\ pc' = CreateFailure(status).pc
       /\ view' = CreateFailure(status).view
       /\ errors' = CreateFailure(status).errors
       /\ raised' = CreateFailure(status).raised
  /\ form_values' = Some(form)
  /\ UNCHANGED <<cfg, tables, method, form, ref, results, start_cursor, pages, opts>>

\* POST, valid, the value is nan or an infinity: the payload is refused by
\* the encoder, no call is sent and the error leaves the handler.
CreateNotSerializable ==
  /\ pc = "options" /\ ref > Len(Refs)
  /\ method = "POST"
  /\ FormErrors(form) = <<>>
  /\ cfg.sales # ""
  /\ ~Serializable(notion_props(form))
  /\ form_values' = Some(form)
  /\ raised' = Some(JsonError)
  /\ pc' = "raised"
  /\ UNCHANGED <<cfg, tables, method, form, ref, results, start_cursor, pages, opts,
                 calls, errors, view>>

(***************************************************************************)
(* Inputs                                                                  *)
(***************************************************************************)
MaxPages == 2

\* Pages of the table the reader specification reads.
MaxReaderPages == 3

MkForm(date, salesman, distributor, region, outlet, oname, sku, qty, val, mode, visit) ==
  [ date |-> date, salesman_id |-> salesman, distributor_id |-> distributor,
    region |-> region, outlet_id |-> outlet, outlet_name |-> oname, sku_id |-> sku,
    quantity |-> qty, value |-> val, selling_mode |-> mode, visit_yn |-> visit ]

\* request.form.get(name, "") of a request that carries no field
EmptyForm == MkForm(<<>>, <<>>, <<>>, <<>>, <<>>, <<>>, <<>>, <<>>, <<>>, <<>>, <<>>)

GoodDate   == <<"2", "0", "2", "4", "-", "0", "3", "-", "0", "5">>
PaddedDate == <<" ", "\t">> \o GoodDate \o <<"\n">>
ShortDate  == <<"2", "0", "2", "4", "-", "3", "-", "5">>
NoSuchDay  == <<"2", "0", "2", "4", "-", "0", "2", "-", "3", "0">>
Letters    == <<"a", "b", "c">>
Blank      == <<" ", "\t", "U+00A0", "\n">>
Cash       == <<" ", "C", "a", "s", "h", " ">>

\* Submissions of the handler specification.
FormsSmall ==
  { MkForm(d, <<"S", "1">>, <<"D", "1">>, r, <<" ", "K", "1">>, <<>>, <<"A", "1">>,
           q, v, Cash, y) :
      d \in {GoodDate, PaddedDate, NoSuchDay},
      r \in {<<>>, <<"N", "o">>},
      q \in {<<"1", ",", "2", "0", "0">>, Letters, <<"1", ".", "9", "e", "1">>},
      v \in {<<"1", ",", "2", "0", "0", ".", "5", "0">>, <<"1", ".", "2", ".", "3">>,
             <<"-", "I", "n", "f">>},
      y \in {<<"Y">>, <<"N">>, <<"M">>, <<" ", "Y", " ">>} }

\* Submissions of the validator specification: every required field blank or
\* not, date, quantity and value well-formed or not.
FormsAll ==
  { MkForm(d, s, t, r, o, n, k, q, v, m, y) :
      d \in {<<>>, GoodDate, PaddedDate, ShortDate, NoSuchDay, Letters},
      s \in {<<>>, <<"S", "1">>},
      t \in {<<>>, <<"D", "1">>},
      r \in {<<>>, Blank, <<"N", "o">>},
      o \in {<<>>, <<"K", "1">>},
      n \in {<<>>, <<"S", "h", "o", "p">>},
      k \in {<<>>, <<"A", "1">>},
      q \in {<<>>, <<"1", ",", "2", "0", "0">>, <<"n", "a", "n">>, <<"-", "1", "_", "9", "E", "-", "1", "\r">>},
      v \in {<<>>, <<"\t", "1", "2", ".", "5", "0">>, <<"1", ".", "2", ".", "3">>,
             <<"1", ".", "7", "9", "7", "6", "9", "3", "1", "3", "5", "e", "3", "0", "8">>},
      m \in {<<>>, Cash},
      y \in {<<>>, <<"N">>} }

TitleProp(spans)    == [type |-> "title", title |-> spans]
RichTextProp(spans) == [type |-> "rich_text", rich_text |-> spans]
NumberProp(n)       == [type |-> "number", number |-> n]
SelectProp(name)    == [type |-> "select", select |-> name]
StatusProp(name)    == [type |-> "status", status |-> name]
FormulaString(v)    == [type |-> "formula", formula |-> [type |-> "string", string |-> v]]
FormulaNumber(n)    == [type |-> "formula", formula |-> [type |-> "number", number |-> n]]
FormulaBoolean(b)   == [type |-> "formula", formula |-> [type |-> "boolean", boolean |-> b]]
FormulaDate(d)      == [type |-> "formula", formula |-> [type |-> "date", date |-> d]]
OtherProp           == [type |-> "checkbox", checkbox |-> TRUE]
FormulaOther        == [type |-> "formula", formula |-> [type |-> "array"]]

Row(props) == [properties |-> props]

\* Identifiers of the tables of the service.
SalesDb == "db_sales"
DbOf(name) == "db_" \o name
RefDbs == {DbOf(n) : n \in RefNames}

\* Handler specification: every reference table has n one-row pages, the
\* values descending from page to page so that the sort has work to do.
SimpleRow(r, k) ==
  Row(Refs[r].idp :> TitleProp(<< <<"S">>, <<DigitChar(9 - k)>> >>)
      @@ Refs[r].lbp :> RichTextProp(<< <<"A", "n", "n">> >>))

\* An answer of the service.
Page(rows, more, next) == [results |-> rows, has_more |-> more, next_cursor |-> next]

\* How an answer continues: "next" has has_more with the cursor of the page
\* after it, "null" and "empty" have has_more with a null or an empty
\* next_cursor, "stop" has no has_more.
Continue(kind, k) ==
  CASE kind = "next"  -> [has_more |-> TRUE,  next_cursor |-> Some(CursorOf(k + 1))]
    [] kind = "null"  -> [has_more |-> TRUE,  next_cursor |-> None]
    [] kind = "empty" -> [has_more |-> TRUE,  next_cursor |-> Some(<<>>)]
    [] kind = "stop"  -> [has_more |-> FALSE, next_cursor |-> None]

\* The kinds the pages of an n-page table may have: only the last may stop,
\* only the others can name a page after them.
KindsOf(n) ==
  {f \in [1..n -> {"next", "null", "empty", "stop"}] :
     \A k \in 1..n : IF k < n THEN f[k] # "stop" ELSE f[k] \in {"stop", "null", "empty"}}

Answers(t, f) ==
  [k \in 1..Len(t) |-> Page(t[k], Continue(f[k], k).has_more, Continue(f[k], k).next_cursor)]

\* A service that hands the cursor of the next page with every page but the
\* last.
Paged(t) == Answers(t, [k \in 1..Len(t) |-> IF k < Len(t) THEN "next" ELSE "stop"])

SimpleTables(n) ==
  [db \in RefDbs |->
     LET r == CHOOSE i \in 1..Len(Refs) : DbOf(Refs[i].name) = db
     IN  Paged([k \in 1..n |-> <<SimpleRow(r, k)>>])]

\* Reader specification: properties the value property of a salesman row may be.
IdProps ==
  { TitleProp(<< <<"S">>, <<"2">> >>), TitleProp(<< <<" ">> >>), TitleProp(<<>>),
    RichTextProp(<< <<" ", "S", "1", " ">> >>),
    NumberProp(Some(12)), NumberProp(Some(0)), NumberProp(None),
    SelectProp(Some(<<"A">>)), SelectProp(None),
    StatusProp(Some(<<"B">>)), StatusProp(None),
    FormulaString(Some(<<"C", " ">>)), FormulaString(None), FormulaString(Some(<<>>)),
    FormulaString(Some(<<" ">>)),
    FormulaNumber(Some(-5)), FormulaNumber(None),
    FormulaBoolean(Some(TRUE)), FormulaBoolean(Some(FALSE)), FormulaBoolean(None),
    FormulaDate(Some(GoodDate)), FormulaDate(None),
    OtherProp, FormulaOther }

LabelProps == { RichTextProp(<< <<"A", "n", "n", " ">> >>), RichTextProp(<< <<" ">> >>),
                FormulaString(Some(<<" ">>)) }

RowSet ==
     { Row("Salesman_ID" :> p) : p \in IdProps }
  \cup { Row("Salesman_ID" :> TitleProp(<< <<"S">>, <<"2">> >>) @@ "Salesman_Name" :> l) :
           l \in LabelProps }
  \cup { Row("Salesman_Name" :> RichTextProp(<< <<"A", "n", "n">> >>)) }

PageSet ==
     { <<r>> : r \in RowSet }
  \cup { <<>>,
         << Row("Salesman_ID" :> NumberProp(Some(12))),
            Row("Salesman_ID" :> FormulaString(Some(<<" ">>))),
            Row("Salesman_ID" :> SelectProp(Some(<<"A">>))
                @@ "Salesman_Name" :> RichTextProp(<< <<"x">> >>)),
            Row("Salesman_ID" :> NumberProp(Some(12))
                @@ "Salesman_Name" :> RichTextProp(<< <<"y">> >>)) >> }

\* Pages of the tables of more than one page.
SmallPages ==
  { <<>>, << Row("Salesman_ID" :> TitleProp(<< <<"S">>, <<"2">> >>)) >> }
  \cup { p \in PageSet : Len(p) > 1 }

RECURSIVE SeqsUpTo(_, _)
\* the non-empty sequences over S of length at most n
SeqsUpTo(S, n) ==
  IF n = 0 THEN {}
  ELSE {<<x>> : x \in S} \cup SeqsUpTo(S, n - 1)
       \cup {Append(t, x) : t \in SeqsUpTo(S, n - 1), x \in S}

\* The state in which the handler is entered.
Entry ==
  /\ pc = "options" /\ ref = 1
  /\ results = <<>> /\ start_cursor = None
  /\ pages = [n \in RefNames |-> <<>>]
  /\ opts = [n \in RefNames |-> <<>>]
  /\ calls = <<>> /\ errors = <<>> /\ form_values = None
  /\ view = "none" /\ raised = None

Configs(S) ==
  [sales : {"", SalesDb}, salesman : S, distributor : {"", DbOf("distributor")},
   sku : {"", DbOf("sku")}, outlet : {"", DbOf("outlet")}]

Init ==
  /\ cfg \in Configs({"", DbOf("salesman")})
  /\ \E n \in 1..MaxPages : tables = SimpleTables(n)
  /\ method \in {"GET", "HEAD", "POST"}
  /\ form \in (IF method = "POST" THEN FormsSmall ELSE {EmptyForm})
  /\ Entry

Next ==
  \/ OptionsBlank \/ QueryPageOk \/ QueryPageFail
  \/ RenderGet \/ SubmitInvalid \/ SubmitNoTable \/ CreateOk \/ CreateFail
  \/ CreateNotSerializable

Spec == Init /\ [][Next]_vars

\* The salesman table of the reader specification: one page of any content,
\* or up to MaxReaderPages pages continued in any way.
ReaderTables ==
     { Paged(<<p>>) : p \in PageSet }
  \cup UNION { {Answers(t, f) : f \in KindsOf(Len(t))} :
                t \in SeqsUpTo(SmallPages, MaxReaderPages) }

\* A page view that reads one reference table of arbitrary content.
InitReader ==
  /\ cfg \in {c \in Configs({"", DbOf("salesman")}) :
                c.sales = SalesDb /\ c.distributor = "" /\ c.sku = "" /\ c.outlet = ""}
  /\ \E t \in ReaderTables :
       tables = [db \in RefDbs |-> IF db = DbOf("salesman") THEN t ELSE Paged(<< <<>> >>)]
  /\ method = "GET"
  /\ form = EmptyForm
  /\ Entry

NextReader == OptionsBlank \/ QueryPageOk \/ QueryPageFail \/ RenderGet

SpecReader == InitReader /\ [][NextReader]_vars

\* A submission to a deployment that configures no reference table.
InitValidator ==
  /\ cfg \in {c \in Configs({""}) :
                c.sales = SalesDb /\ c.distributor = "" /\ c.sku = "" /\ c.outlet = ""}
  /\ tables = SimpleTables(1)
  /\ method = "POST"
  /\ form \in FormsAll
  /\ Entry

NextValidator ==
  OptionsBlank \/ SubmitInvalid \/ CreateOk \/ CreateFail \/ CreateNotSerializable

SpecValidator == InitValidator /\ [][NextValidator]_vars

(***************************************************************************)
(* Properties                                                              *)
(***************************************************************************)
CreateCalls == SelectSeq(calls, LAMBDA c : c.path = "pages")

QueriesOf(name) == SelectSeq(calls, LAMBDA c : c.path = "query" /\ c.ref = name)

RequiredSet == {"date", "salesman_id", "distributor_id", "region", "outlet_id",
                "sku_id", "quantity", "value", "selling_mode", "visit_yn"}

BlankRequired == {f \in RequiredSet : Strip(form[f]) = <<>>}

DateFails     == ~_parse_date_yyyy_mm_dd(form["date"]).ok
QuantityFails == ~_to_int(form["quantity"]).ok
ValueFails    == ~_to_float(form["value"]).ok

Invalid == BlankRequired # {} \/ DateFails \/ QuantityFails \/ ValueFails

Count(seq, e) == Cardinality({i \in 1..Len(seq) : seq[i] = e})

RECURSIVE Flatten(_)
Flatten(t) == IF t = <<>> THEN <<>> ELSE Head(t) \o Flatten(Tail(t))

RefIndex(name) == CHOOSE i \in 1..Len(Refs) : Refs[i].name = name

\* C1: a POST submission with a validation error (a required field blank, or
\* date, quantity or value not parsing) issues no create call, and when the
\* handler returns it has rendered the form with a non-empty error list and
\* the submitted values.
C1_InvalidNeverCreates ==
  (method = "POST" /\ Invalid) =>
     /\ CreateCalls = <<>>
     /\ pc = "done" => (view = "form" /\ errors # <<>> /\ form_values = Some(form))

C1_Witness ==
  /\ method = "POST" /\ pc = "done" /\ view = "form"
  /\ BlankRequired = {} /\ QuantityFails /\ ~DateFails /\ ~ValueFails
  /\ errors = <<QuantityError>>
  /\ calls # <<>> /\ CreateCalls = <<>>

ValueFinite == _to_float(form["value"]).kind = "finite"

\* C2: a fully valid POST whose reference reads succeeded, sent to a
\* deployment whose sales table is configured and with a finite value, ends
\* with exactly one create call, carrying the parsed quantity and value and
\* the input date string unchanged.
C2_DateSentUnchanged ==
  (pc \in {"done", "raised"} /\ method = "POST" /\ ~Invalid /\ ref > Len(Refs)
     /\ cfg.sales # "" /\ ValueFinite) =>
     /\ Len(CreateCalls) = 1
     /\ LET props == CreateCalls[1].properties[1] IN
          /\ props.Quantity.number = _to_int(form["quantity"]).val
          /\ props.Value.number = FloatValue(_to_float(form["value"]))
          /\ props.Date.date.start = form["date"]

\* C3: when the create call is answered with an error status, the handler
\* catches the error and shows it to the user: the request ends with a
\* template rendered with a message, and no error leaves the handler.
C3_CreateErrorShown ==
  \A i \in 1..Len(calls) :
     (calls[i].path = "pages" /\ IsError(calls[i].status)) =>
        (pc = "done" /\ raised = None /\ view = "form" /\ errors # <<>>)

\* C4: the Visit select of a create call is one of two canonical labels: the
\* label of "Y" for visit_yn = "Y", and for every other value the one label
\* that "N" gets, different from the label of "Y"; selling_mode is passed
\* through trimmed.
C4_VisitCanonical ==
  \A i \in 1..Len(calls) :
     calls[i].path = "pages" =>
       LET props == calls[i].properties[1]
           yes   == VisitSelect([form EXCEPT !["visit_yn"] = <<"Y">>]).select.name
           no    == VisitSelect([form EXCEPT !["visit_yn"] = <<"N">>]).select.name
       IN  /\ yes # no
           /\ props.Visit.select.name = (IF form["visit_yn"] = <<"Y">> THEN yes ELSE no)
           /\ props.Selling_Mode.select.name = Strip(form["selling_mode"])

MissingEntries == SelectSeq(errors, LAMBDA e : e # <<>> /\ Head(e) = MissingPrefix)

\* the field names an entry "Missing fields: a, b" lists, in order
NamesListed(e) == SelectSeq(Tail(e), LAMBDA tok : tok # ", ")

\* C5: once the submission is validated, the error list holds no missing-
\* fields entry when no required field is blank, and otherwise exactly one,
\* which names each blank required field once, names nothing else, and never
\* names outlet_name.
C5_MissingListedExactly ==
  form_values # None =>
    IF BlankRequired = {} THEN MissingEntries = <<>>
    ELSE /\ Len(MissingEntries) = 1
         /\ LET names == NamesListed(MissingEntries[1]) IN
              /\ {names[i] : i \in 1..Len(names)} = BlankRequired
              /\ Len(names) = Cardinality(BlankRequired)
              /\ \A i \in 1..Len(names) : names[i] # "outlet_name"

C5_Witness ==
  /\ pc = "done" /\ form_values = Some(form)
  /\ BlankRequired = {"quantity", "region"}
  /\ form["region"] = Blank /\ form["quantity"] = <<>>
  /\ form["outlet_name"] = <<>>
  /\ errors = << <<MissingPrefix, "region", ", ", "quantity">> >>

\* C6 as stated: each of date, quantity and value that fails to parse has its
\* message in the error list, whether or not required fields are missing.
C6_Original ==
  form_values # None =>
    /\ DateFails => Count(errors, DateError) = 1
    /\ QuantityFails => Count(errors, QuantityError) = 1
    /\ ValueFails => Count(errors, ValueError) = 1

\* C6 amended: when no required field is blank, each of date, quantity and
\* value that fails to parse has its own message in the error list exactly
\* once, whatever the other two do, and one that parses has none; when a
\* required field is blank, no type check is made and the error list holds
\* the missing-fields entry and nothing else.
C6_TypeChecksWhenNoneMissing ==
  form_values # None =>
    IF BlankRequired = {}
    THEN /\ Count(errors, DateError) = (IF DateFails THEN 1 ELSE 0)
         /\ Count(errors, QuantityError) = (IF QuantityFails THEN 1 ELSE 0)
         /\ Count(errors, ValueError) = (IF ValueFails THEN 1 ELSE 0)
         /\ Cardinality({DateError, QuantityError, ValueError}) = 3
    ELSE /\ Count(errors, DateError) = 0
         /\ Count(errors, QuantityError) = 0
         /\ Count(errors, ValueError) = 0
         /\ Len(errors) = 1 /\ errors = MissingEntries

C6_Witness ==
  /\ pc = "done" /\ form_values = Some(form)
  /\ BlankRequired = {}
  /\ DateFails /\ QuantityFails /\ ValueFails
  /\ errors = <<DateError, QuantityError, ValueError>>

\* the rows of the pages of a table, in page order
RowsOf(db) == Flatten([k \in 1..Len(tables[db]) |-> tables[db][k].results])

\* Every answer of the table that has has_more carries a non-empty
\* next_cursor.
CursorsGiven(db) ==
  \A k \in 1..Len(tables[db]) : tables[db][k].has_more => Truthy(tables[db][k].next_cursor)

Paginated(db, q) ==
  /\ Len(q) >= 1 => q[1].start_cursor = None
  /\ \A i \in 1..Len(q) : q[i].page_size = 100
  /\ \A i \in 2..Len(q) :
       /\ QueryResponse(db, q[i - 1].start_cursor).has_more
       /\ q[i].start_cursor = QueryResponse(db, q[i - 1].start_cursor).next_cursor
  /\ Len(q) <= Len(tables[db])
  /\ \A i \in 1..Len(q) : PageIndex(q[i].start_cursor) = i
  /\ ref > 1 =>
       /\ Len(q) = Len(tables[db])
       /\ ~QueryResponse(db, q[Len(q)].start_cursor).has_more
       /\ pages["salesman"] = RowsOf(db)

\* C7 as stated: while every query of the salesman table succeeds, the
\* queries follow the pages: the first carries no start_cursor, each later
\* one the next_cursor of the answer before it, none follows an answer
\* without has_more, there is one query per page; and once the read has
\* returned, the rows returned are those of all pages, in page order.
C7_Original ==
  LET db == cfg.salesman
      q  == QueriesOf("salesman")
  IN  (db # "" /\ \A i \in 1..Len(q) : ~IsError(q[i].status)) => Paginated(db, q)

\* C7 amended: the same, for a source whose every answer with has_more
\* carries a non-empty next_cursor.
C7_PaginationFollowsCursor ==
  LET db == cfg.salesman
      q  == QueriesOf("salesman")
  IN  (db # "" /\ CursorsGiven(db) /\ \A i \in 1..Len(q) : ~IsError(q[i].status)) =>
        Paginated(db, q)

C7_Witness ==
  /\ cfg.salesman # "" /\ ref > 1 /\ CursorsGiven(cfg.salesman)
  /\ Len(tables[cfg.salesman]) = 3
  /\ Len(QueriesOf("salesman")) = 3
  /\ QueriesOf("salesman")[2].start_cursor = Some(CursorOf(2))
  /\ QueriesOf("salesman")[3].start_cursor = Some(CursorOf(3))
  /\ \A i \in 1..Len(calls) : ~IsError(calls[i].status)
  /\ Len(tables[cfg.salesman][1].results) = 4
  /\ Len(tables[cfg.salesman][2].results) = 1
  /\ Len(tables[cfg.salesman][3].results) = 4
  /\ Len(pages["salesman"]) = 9

\* C8: a reference whose identifier is empty is never queried, its read
\* raises nothing, and once it is done its rows and its options are empty.
C8_BlankNeverQueried ==
  \A i \in 1..Len(Refs) :
     cfg[Refs[i].name] = "" =>
       /\ QueriesOf(Refs[i].name) = <<>>
       /\ \A k \in 1..Len(calls) : calls[k].path = "query" => calls[k].db # ""
       /\ (pc = "raised" /\ ref <= Len(Refs)) => ref # i
       /\ ref > i => (pages[Refs[i].name] = <<>> /\ opts[Refs[i].name] = <<>>)

C8_Witness ==
  /\ cfg.outlet = "" /\ cfg.salesman = "" /\ cfg.sku # ""
  /\ pc = "done" /\ view = "form"
  /\ opts["outlet"] = <<>> /\ opts["salesman"] = <<>> /\ opts["sku"] # <<>>
  /\ QueriesOf("outlet") = <<>> /\ QueriesOf("sku") # <<>>

\* C9: every option built from the rows read has a non-empty value, a row
\* whose value property is missing or empty gives no option, and every other
\* row gives exactly one.
C9_OptionsNonEmpty ==
  ref > 1 =>
    /\ \A i \in 1..Len(opts["salesman"]) : opts["salesman"][i][1] # <<>>
    /\ Len(opts["salesman"]) =
         Cardinality({i \in 1..Len(pages["salesman"]) :
            ~Falsy(_get_prop_value(pages["salesman"][i].properties, "Salesman_ID"))})

\* C10: a create call comes last, after every configured reference was read
\* to its last page in the order salesman, distributor, sku, outlet, with no
\* query failed; a template is rendered or the form validated only after
\* those reads; and a query answered with an error status is the last call,
\* leaves the handler as that error (status and body), with no create call.
C10_ReadsPrecedeCreate ==
  /\ \A i \in 1..Len(calls) :
       calls[i].path = "pages" =>
         /\ i = Len(calls)
         /\ \A k \in 1..(i - 1) : calls[k].path = "query" /\ ~IsError(calls[k].status)
  /\ (CreateCalls # <<>> \/ view # "none" \/ form_values # None) =>
       /\ ref > Len(Refs)
       /\ \A j \in 1..Len(Refs) :
            cfg[Refs[j].name] # "" =>
              Len(QueriesOf(Refs[j].name)) = Len(tables[cfg[Refs[j].name]])
  /\ \A i \in 1..Len(calls), k \in 1..Len(calls) :
       (i < k /\ calls[i].path = "query" /\ calls[k].path = "query") =>
          RefIndex(calls[i].ref) <= RefIndex(calls[k].ref)
  /\ \A i \in 1..Len(calls) :
       (calls[i].path = "query" /\ IsError(calls[i].status)) =>
         /\ i = Len(calls)
         /\ pc = "raised"
         /\ raised = Some([kind |-> "Notion error", status |-> calls[i].status,
                           text |-> BodyOf(calls[i].status)])
         /\ CreateCalls = <<>> /\ view = "none"

C10_Witness ==
  /\ method = "POST" /\ ~Invalid /\ cfg.sales # ""
  /\ pc = "raised" /\ CreateCalls = <<>>
  /\ Len(calls) = 3
  /\ calls[3].ref = "distributor" /\ calls[3].status = 500
  /\ calls[3].start_cursor = None /\ Len(tables[cfg.distributor]) = 2

====
